---------------------------- MODULE Spec2Model ----------------------------
(***************************************************************************)
(* Configuration resolution of lean-cli json modules.                      *)
(*                                                                         *)
(*   lean/models/json_module.py            JsonModule: sort_configs,       *)
(*       _check_if_config_passes_filters, get_config_value_from_name,      *)
(*       get_default, config_build, get_settings                           *)
(*       get_paths_to_mount, ensure_module_installed                       *)
(*   lean/components/util/json_modules_handler.py   _update_settings,      *)
(*       config_build_for_name, interactive_config_build,                  *)
(*       build_and_configure_modules                                       *)
(*                                                                         *)
(* Python strings are sequences of one-token characters ("NL" is the       *)
(* newline character, "\\" the backslash, "QA" the three characters of the *)
(* JSON string literal "A"); dictionary keys are sequences of words and    *)
(* separators (<<"k", "-", "a">> is the key k-a).  A Python dict is the    *)
(* sequence of its <<key, value>> pairs in insertion order.                *)
(***************************************************************************)
EXTENDS Naturals, Sequences, FiniteSets

VARIABLES
    module_type,            \* JsonModule._module_type
    platform,               \* JsonModule._platform
    configs,                \* JsonModule._lean_configs (schema and value slots)
    lean_config,            \* the persisted configuration handed to config_build
    environment_name,       \* the environment name of the invocation
    interactive,            \* the mode of the invocation
    user_provided_options,  \* CLI options of the invocation
    properties,             \* the properties channel of the invocation
    ambient,                \* TRUE when lean_config/logger are module globals
    last,                   \* what the last call on the module did and returned
    target,                 \* _update_settings: the settings map merged into
    merge,                  \* _update_settings: how the last call ended, and on what
    install                 \* JsonModule._installs, _is_module_installed; the installer

vars == <<module_type, platform, configs, lean_config, environment_name,
          interactive, user_provided_options, properties, ambient, last,
          target, merge, install>>

moduleVars == <<module_type, platform, configs, lean_config, environment_name,
                interactive, user_provided_options, properties, ambient, last>>

mergeVars == <<target, merge>>

installVars == <<install>>

---------------------------------------------------------------------------
(* Python values: None, a string, a mapping from sub-keys to strings, or a *)
(* list of values.                                                         *)

None == [t |-> "none", s |-> <<>>, d |-> <<>>, l |-> <<>>]

Str(s) == [t |-> "str", s |-> s, d |-> <<>>, l |-> <<>>]

Dict(d) == [t |-> "dict", s |-> <<>>, d |-> d, l |-> <<>>]

List(l) == [t |-> "list", s |-> <<>>, d |-> <<>>, l |-> l]

\* bool(value): None, "", {} and [] are falsy
Truthy(v) ==
    CASE v.t = "none" -> FALSE
      [] v.t = "str"  -> v.s # <<>>
      [] v.t = "dict" -> v.d # <<>>
      [] OTHER        -> v.l # <<>>

Whitespace == {" ", "NL"}

\* str.strip()
RECURSIVE lstrip(_)
lstrip(s) ==
    IF s # <<>> /\ Head(s) \in Whitespace THEN lstrip(Tail(s)) ELSE s

RECURSIVE rstrip(_)
rstrip(s) ==
    IF s # <<>> /\ s[Len(s)] \in Whitespace
    THEN rstrip(SubSeq(s, 1, Len(s) - 1))
    ELSE s

strip(s) == rstrip(lstrip(s))

\* str.replace(old, new) for a one-character old
replace1(s, old, new) == [i \in DOMAIN s |-> IF s[i] = old THEN new ELSE s[i]]

\* str.replace(old, new) for the two-character old <<o1, o2>>, left to right
RECURSIVE replace2(_, _, _, _)
replace2(s, o1, o2, new) ==
    IF Len(s) < 2 THEN s
    ELSE IF s[1] = o1 /\ s[2] = o2
         THEN <<new>> \o replace2(SubSeq(s, 3, Len(s)), o1, o2, new)
         ELSE <<s[1]>> \o replace2(Tail(s), o1, o2, new)

Contains(s, c) == \E i \in DOMAIN s : s[i] = c

\* dict operations on the sequence of pairs
Has(dct, k) == \E i \in DOMAIN dct : dct[i][1] = k

Get(dct, k) == dct[CHOOSE i \in DOMAIN dct : dct[i][1] = k][2]

Put(dct, k, v) ==
    IF Has(dct, k)
    THEN [i \in DOMAIN dct |-> IF dct[i][1] = k THEN <<k, v>> ELSE dct[i]]
    ELSE Append(dct, <<k, v>>)

Keys(dct) == {dct[i][1] : i \in DOMAIN dct}

---------------------------------------------------------------------------
(* lean.constants                                                          *)

MODULE_TYPE == <<"module", "-", "type">>

MODULE_PLATFORM == <<"module", "-", "platform">>

---------------------------------------------------------------------------
(* JsonModule helpers                                                      *)

convert_lean_key_to_variable(lean_key) == replace1(lean_key, "-", "_")

convert_variable_to_lean_key(variable_key) == replace1(variable_key, "_", "-")

\* config_build._normalized_options_map: both spellings of every key
RECURSIVE normalized_from(_, _, _)
normalized_from(opts, i, out) ==
    IF i > Len(opts) THEN out
    ELSE LET k  == opts[i][1]
             v  == opts[i][2]
             o1 == Put(out, k, v)
             o2 == IF Contains(k, "-") THEN Put(o1, replace1(k, "-", "_"), v) ELSE o1
             o3 == IF Contains(k, "_") THEN Put(o2, replace1(k, "_", "-"), v) ELSE o2
         IN normalized_from(opts, i + 1, o3)

_normalized_options_map(opts) == normalized_from(opts, 1, <<>>)

\* JsonModule.get_default: environment block first, then top level
get_default(lc, key, env) ==
    IF lc.none THEN None
    ELSE IF Truthy(env) /\ Has(lc.envs, env.s) /\ Has(Get(lc.envs, env.s).entries, key)
         THEN Get(Get(lc.envs, env.s).entries, key)
         ELSE IF Has(lc.top, key) THEN Get(lc.top, key) ELSE None

\* JsonModule.sort_configs
sort_configs(cfgs) ==
    LET isBrokerage(c) == c.kind = "brokerage-env"
        isFilter(c)    == c.kind # "brokerage-env" /\ c.has_filter_dependency
        isPlain(c)     == c.kind # "brokerage-env" /\ ~c.has_filter_dependency
    IN SelectSeq(cfgs, isBrokerage) \o SelectSeq(cfgs, isPlain) \o SelectSeq(cfgs, isFilter)

\* JsonModule.get_config_value_from_name: [idx] = [...] needs exactly one match
Matches(cfgs, target_name) == {i \in DOMAIN cfgs : cfgs[i].id = target_name}

lookup_fails(cfgs, target_name) == Cardinality(Matches(cfgs, target_name)) # 1

get_config_value_from_name(cfgs, target_name) ==
    cfgs[CHOOSE i \in Matches(cfgs, target_name) : TRUE].value

\* Condition.check
check(condition, value) == value.t = "str" /\ value.s = condition.pattern

\* the verdict on a mapping target: every value of the mapping must match
check_mapping(condition, target_value) ==
    \A i \in DOMAIN target_value.d : check(condition, Str(target_value.d[i][2]))

\* JsonModule._check_if_config_passes_filters: "pass" | "fail" | "error"
RECURSIVE filters_from(_, _, _, _)
filters_from(cfgs, conditions, i, all_for_platform_type) ==
    IF i > Len(conditions) THEN "pass"
    ELSE LET condition == conditions[i]
             onEntry   == condition.dep \notin {MODULE_TYPE, MODULE_PLATFORM}
         IN IF onEntry /\ all_for_platform_type
            THEN filters_from(cfgs, conditions, i + 1, all_for_platform_type)
            ELSE IF onEntry /\ lookup_fails(cfgs, condition.dep) THEN "error"
            ELSE LET target_value ==
                         IF condition.dep = MODULE_TYPE THEN module_type
                         ELSE IF condition.dep = MODULE_PLATFORM THEN platform
                         ELSE get_config_value_from_name(cfgs, condition.dep)
                 IN IF ~Truthy(target_value) THEN "fail"
                    ELSE IF target_value.t = "dict"
                         THEN (IF check_mapping(condition, target_value)
                               THEN "pass" ELSE "fail")
                    ELSE IF ~check(condition, target_value) THEN "fail"
                    ELSE filters_from(cfgs, conditions, i + 1, all_for_platform_type)

_check_if_config_passes_filters(cfgs, config, all_for_platform_type) ==
    filters_from(cfgs, config.filter, 1, all_for_platform_type)


---------------------------------------------------------------------------
(* JsonModule.config_build                                                 *)

\* a resolver that consults the properties before the CLI options
candidate_properties_first(config, upo, props, lc, env) ==
    LET lean_key == config.id
        var_key  == replace1(lean_key, "-", "_")
    IN IF \E i \in DOMAIN props : props[i][1] = var_key
       THEN props[CHOOSE i \in DOMAIN props : props[i][1] = var_key][2]
       ELSE IF \E i \in DOMAIN upo : upo[i][1] = var_key /\ upo[i][2].t # "none"
       THEN upo[CHOOSE i \in DOMAIN upo : upo[i][1] = var_key][2]
       ELSE get_default(lc, lean_key, env)

\* lines 383-429: the candidate from CLI options, properties, persisted default
candidate(config, upo, props, lc, env) ==
    LET lean_key == config.id
        var_key  == convert_lean_key_to_variable(lean_key)
    IN IF Has(upo, var_key) /\ Get(upo, var_key) # None THEN Get(upo, var_key)
       ELSE IF Has(upo, lean_key) /\ Get(upo, lean_key) # None THEN Get(upo, lean_key)
       ELSE IF Has(props, var_key) THEN Get(props, var_key)
       ELSE IF Has(props, lean_key) THEN Get(props, lean_key)
       ELSE get_default(lc, lean_key, env)

\* an emptiness test that only knows None
is_empty_none_only(user_choice) == user_choice = None

\* lines 432-434
is_empty(user_choice) ==
    \/ user_choice = None
    \/ user_choice.t = "str" /\ strip(user_choice.s) = <<>>

\* Configuration.ask_user_for_input: what the user enters at the prompt
ask_user_for_input(config, inp) ==
    IF config.kind = "auth" THEN inp.auth_answer ELSE inp.answer

\* presence tests that look at the value instead of the key
present_in_properties_by_value(config, props) ==
    \E i \in DOMAIN props :
        /\ props[i][1] \in {config.id, replace1(config.id, "-", "_")}
        /\ props[i][2].t = "str" /\ props[i][2].s # <<>>

present_in_user_opts_by_value(config, upo) ==
    \E i \in DOMAIN upo :
        /\ upo[i][1] \in {config.id, replace1(config.id, "-", "_")}
        /\ upo[i][2].t # "none"

\* lines 456-461: the key is present in a channel, whatever its value
present_in_properties(config, props) ==
    Has(props, config.id) \/ Has(props, convert_lean_key_to_variable(config.id))

present_in_user_opts(config, upo) ==
    Has(upo, config.id) \/ Has(upo, convert_lean_key_to_variable(config.id))

\* an emptiness rule that accepts a required entry on the properties alone
resolve_empty_properties_only(config, user_choice, inp, upo, props) ==
    IF inp.interactive
    THEN [value    |-> ask_user_for_input(config, inp),
          missing  |-> FALSE,
          prompted |-> TRUE,
          saved    |-> config.kind # "brokerage-env"]
    ELSE IF config.optional
         THEN [value    |-> IF config.input_default # None
                            THEN config.input_default ELSE user_choice,
               missing  |-> FALSE, prompted |-> FALSE, saved |-> FALSE]
         ELSE IF present_in_properties(config, props)
              THEN [value    |-> IF user_choice = None THEN Str(<<>>) ELSE user_choice,
                    missing  |-> FALSE, prompted |-> FALSE, saved |-> FALSE]
              ELSE [value    |-> user_choice,
                    missing  |-> TRUE, prompted |-> FALSE, saved |-> FALSE]

\* an emptiness rule that never falls back on the declared default
resolve_empty_ignore_default(config, user_choice, inp, upo, props) ==
    IF inp.interactive
    THEN [value    |-> ask_user_for_input(config, inp),
          missing  |-> FALSE,
          prompted |-> TRUE,
          saved    |-> config.kind # "brokerage-env"]
    ELSE IF config.optional
         THEN [value    |-> user_choice,
               missing  |-> FALSE, prompted |-> FALSE, saved |-> FALSE]
         ELSE IF present_in_properties(config, props) \/ present_in_user_opts(config, upo)
              THEN [value    |-> IF user_choice = None THEN Str(<<>>) ELSE user_choice,
                    missing  |-> FALSE, prompted |-> FALSE, saved |-> FALSE]
              ELSE [value    |-> user_choice,
                    missing  |-> TRUE, prompted |-> FALSE, saved |-> FALSE]

\* lines 436-472: what becomes of an empty candidate
resolve_empty(config, user_choice, inp, upo, props) ==
    IF inp.interactive
    THEN [value    |-> ask_user_for_input(config, inp),
          missing  |-> FALSE,
          prompted |-> TRUE,
          saved    |-> config.kind # "brokerage-env"]
    ELSE IF config.optional
         THEN [value    |-> IF config.input_default # None
                            THEN config.input_default ELSE user_choice,
               missing  |-> FALSE, prompted |-> FALSE, saved |-> FALSE]
         ELSE IF present_in_properties(config, props) \/ present_in_user_opts(config, upo)
              THEN [value    |-> IF user_choice = None THEN Str(<<>>) ELSE user_choice,
                    missing  |-> FALSE, prompted |-> FALSE, saved |-> FALSE]
              ELSE [value    |-> user_choice,
                    missing  |-> TRUE, prompted |-> FALSE, saved |-> FALSE]

\* lines 383-475 for one entry that passed the filter gate
resolve(config, inp, upo, props) ==
    LET user_choice == candidate(config, upo, props, inp.lean_config, inp.environment_name)
    IN IF is_empty(user_choice)
       THEN resolve_empty(config, user_choice, inp, upo, props)
       ELSE [value |-> user_choice, missing |-> FALSE, prompted |-> FALSE, saved |-> FALSE]

\* lines 362-374: every unset slot is prefilled from the persisted configuration
prefill(cfgs, lc, env) ==
    [i \in DOMAIN cfgs |->
        IF cfgs[i].value = None
        THEN [cfgs[i] EXCEPT !.value = get_default(lc, cfgs[i].id, env)]
        ELSE cfgs[i]]

\* a loop that resolves the entries the filter gate rejects as well
RECURSIVE build_from_resolve_inactive(_, _, _, _, _)
build_from_resolve_inactive(acc, i, inp, upo, props) ==
    IF i > Len(acc.cfgs) THEN acc
    ELSE LET config  == acc.cfgs[i]
             verdict == _check_if_config_passes_filters(acc.cfgs, config, FALSE)
         IN IF verdict = "error" THEN [acc EXCEPT !.error = "lookup"]
            ELSE LET r == resolve(config, inp, upo, props)
                 IN build_from_resolve_inactive(
                        [cfgs     |-> [acc.cfgs EXCEPT ![i].value = r.value],
                         missing  |-> IF r.missing
                                      THEN Append(acc.missing, <<"--">> \o config.id)
                                      ELSE acc.missing,
                         active   |-> Append(acc.active, i),
                         prompted |-> IF r.prompted
                                      THEN Append(acc.prompted, i) ELSE acc.prompted,
                         saved    |-> IF r.saved
                                      THEN Append(acc.saved, <<config.id, r.value>>)
                                      ELSE acc.saved,
                         error    |-> acc.error],
                        i + 1, inp, upo, props)

\* lines 376-475: the loop over the entries, each seeing the slots set before it
RECURSIVE build_from(_, _, _, _, _)
build_from(acc, i, inp, upo, props) ==
    IF i > Len(acc.cfgs) THEN acc
    ELSE LET config  == acc.cfgs[i]
             verdict == _check_if_config_passes_filters(acc.cfgs, config, FALSE)
         IN IF verdict = "error" THEN [acc EXCEPT !.error = "lookup"]
            ELSE IF verdict = "fail" THEN build_from(acc, i + 1, inp, upo, props)
            ELSE LET r == resolve(config, inp, upo, props)
                 IN build_from(
                        [cfgs     |-> [acc.cfgs EXCEPT ![i].value = r.value],
                         missing  |-> IF r.missing
                                      THEN Append(acc.missing, <<"--">> \o config.id)
                                      ELSE acc.missing,
                         active   |-> Append(acc.active, i),
                         prompted |-> IF r.prompted
                                      THEN Append(acc.prompted, i) ELSE acc.prompted,
                         saved    |-> IF r.saved
                                      THEN Append(acc.saved, <<config.id, r.value>>)
                                      ELSE acc.saved,
                         error    |-> acc.error],
                        i + 1, inp, upo, props)

\* a config_build that only sees the keys spelled without an underscore
config_build_hyphen_only(cfgs, inp) ==
    LET hyphenated(opts) == SelectSeq(opts, LAMBDA item : ~Contains(item[1], "_"))
        upo   == _normalized_options_map(hyphenated(inp.user_provided_options))
        props == _normalized_options_map(hyphenated(inp.properties))
        acc   == build_from(
                     [cfgs     |-> prefill(cfgs, inp.lean_config, inp.environment_name),
                      missing  |-> <<>>, active |-> <<>>, prompted |-> <<>>,
                      saved    |-> <<>>, error |-> "none"],
                     1, inp, upo, props)
    IN IF acc.error = "none" /\ Len(acc.missing) > 0
       THEN [acc EXCEPT !.error = "missing"]
       ELSE acc

\* lines 320-483
config_build(cfgs, inp) ==
    LET upo   == _normalized_options_map(inp.user_provided_options)
        props == _normalized_options_map(inp.properties)
        acc   == build_from(
                     [cfgs     |-> prefill(cfgs, inp.lean_config, inp.environment_name),
                      missing  |-> <<>>, active |-> <<>>, prompted |-> <<>>,
                      saved    |-> <<>>, error |-> "none"],
                     1, inp, upo, props)
    IN IF acc.error = "none" /\ Len(acc.missing) > 0
       THEN [acc EXCEPT !.error = "missing"]
       ELSE acc


---------------------------------------------------------------------------
(* JsonModule.get_settings                                                 *)

BACKSLASH == "\\"

NEWLINE == "NL"

\* json_module_data["id"]
self_id == <<"interactive", "-", "brokers">>

\* repr() of a string inside a container: quotes, escaped backslash and newline
RECURSIVE repr_chars(_)
repr_chars(s) ==
    IF s = <<>> THEN <<>>
    ELSE (IF Head(s) = BACKSLASH THEN <<BACKSLASH, BACKSLASH>>
          ELSE IF Head(s) = NEWLINE THEN <<BACKSLASH, "n">>
          ELSE <<Head(s)>>) \o repr_chars(Tail(s))

repr(s) == <<"'">> \o repr_chars(s) \o <<"'">>

RECURSIVE repr_items(_, _)
repr_items(dct, i) ==
    IF i > Len(dct) THEN <<>>
    ELSE (IF i > 1 THEN <<",", " ">> ELSE <<>>)
         \o repr(dct[i][1]) \o <<":", " ">> \o repr(dct[i][2])
         \o repr_items(dct, i + 1)

\* str(value)
str(value) ==
    CASE value.t = "str"  -> value.s
      [] value.t = "dict" -> <<"{">> \o repr_items(value.d, 1) \o <<"}">>
      [] value.t = "list" -> <<"[", "...", "]">>
      [] OTHER            -> <<"N", "o", "n", "e">>

\* normalizations that swap the two replacements, or drop the second
normalize_slash_first(s) ==
    replace2(replace1(s, BACKSLASH, "/"), BACKSLASH, "n", NEWLINE)

normalize_newline_only(s) == replace2(s, BACKSLASH, "n", NEWLINE)

\* lines 255-263: unescape newline escapes, then normalize backslashes
normalize(s) == replace1(replace2(s, BACKSLASH, "n", NEWLINE), BACKSLASH, "/")

\* lines 199-210: the dependent entry's value, None when no entry has the id
option_target(cfgs, dep_id) ==
    IF ~lookup_fails(cfgs, dep_id) THEN get_config_value_from_name(cfgs, dep_id)
    ELSE IF Matches(cfgs, dep_id) = {} THEN None
    ELSE cfgs[CHOOSE i \in Matches(cfgs, dep_id) :
                  \A j \in Matches(cfgs, dep_id) : i <= j].value

\* lines 197-214: the options whose condition holds, in declared order
matching_options(cfgs, config) ==
    SelectSeq(config.value_options,
              LAMBDA option : check(option.condition,
                                    option_target(cfgs, option.condition.dep)))

\* line 229: what an unmatched conditional entry's slot becomes
unmatched_value(config) == IF config.value = None THEN Str(<<>>) ELSE config.value

\* lines 191-229 for one entry
evaluate_conditional(cfgs, config) ==
    LET matching == matching_options(cfgs, config)
    IN IF matching # <<>> THEN matching[1].value ELSE unmatched_value(config)

\* lines 191-239: the loop over the entries, each seeing the slots set before it
RECURSIVE conditionals_from(_, _)
conditionals_from(cfgs, i) ==
    IF i > Len(cfgs) THEN cfgs
    ELSE IF cfgs[i].kind = "internal" /\ cfgs[i].is_conditional
         THEN conditionals_from(
                  [cfgs EXCEPT ![i].value = evaluate_conditional(cfgs, cfgs[i])], i + 1)
         ELSE conditionals_from(cfgs, i + 1)

\* lines 251-252: the sub-values of a composite entry
RECURSIVE emit_mapping(_, _, _)
emit_mapping(settings, dct, i) ==
    IF i > Len(dct) THEN settings
    ELSE emit_mapping(Put(settings, dct[i][1], str(Str(dct[i][2]))), dct, i + 1)

\* lines 248-263: what one active entry adds to the settings
emit(settings, configuration) ==
    IF configuration.kind = "auth" /\ configuration.value.t = "dict"
    THEN emit_mapping(settings, configuration.value.d, 1)
    ELSE Put(settings, configuration.id,
             normalize(IF configuration.value = None
                       THEN <<>> ELSE str(configuration.value)))

\* a build loop that emits an entry whose filter evaluation raised
RECURSIVE settings_from_emit_on_error(_, _, _)
settings_from_emit_on_error(cfgs, i, settings) ==
    IF i > Len(cfgs) THEN settings
    ELSE IF _check_if_config_passes_filters(cfgs, cfgs[i], FALSE) \in {"pass", "error"}
         THEN settings_from_emit_on_error(cfgs, i + 1, emit(settings, cfgs[i]))
         ELSE settings_from_emit_on_error(cfgs, i + 1, settings)

\* lines 242-273
RECURSIVE settings_from(_, _, _)
settings_from(cfgs, i, settings) ==
    IF i > Len(cfgs) THEN settings
    ELSE IF _check_if_config_passes_filters(cfgs, cfgs[i], FALSE) = "pass"
         THEN settings_from(cfgs, i + 1, emit(settings, cfgs[i]))
         ELSE settings_from(cfgs, i + 1, settings)

\* lines 150-275: the slots after the call and the map returned
get_settings(cfgs, amb, lc, env) ==
    LET prefilled == IF amb /\ ~lc.none THEN prefill(cfgs, lc, env) ELSE cfgs
        evaluated == conditionals_from(prefilled, 1)
    IN [cfgs     |-> evaluated,
        settings |-> settings_from(evaluated, 1, << <<(<<"id">>), self_id>> >>)]


\* JsonModule.get_paths_to_mount: {id: value} of the path entries that pass
RECURSIVE mounts_from(_, _)
mounts_from(cfgs, i) ==
    IF i > Len(cfgs) THEN <<>>
    ELSE (IF /\ cfgs[i].kind = "path"
             /\ _check_if_config_passes_filters(cfgs, cfgs[i], FALSE) = "pass"
          THEN << <<cfgs[i].id, cfgs[i].value>> >> ELSE <<>>)
         \o mounts_from(cfgs, i + 1)

get_paths_to_mount(cfgs) ==
    [error |-> \E i \in DOMAIN cfgs :
                  /\ cfgs[i].kind = "path"
                  /\ _check_if_config_passes_filters(cfgs, cfgs[i], FALSE) = "error",
     paths |-> mounts_from(cfgs, 1)]

---------------------------------------------------------------------------
(* Configuration.__init__: one schema entry, its value slot unset          *)

has_filter_dependency(filter) ==
    \E i \in DOMAIN filter : filter[i].dep \notin {MODULE_TYPE, MODULE_PLATFORM}

Entry(id, kind, optional, input_default, filter, value_options) ==
    [id                    |-> id,
     kind                  |-> kind,
     optional              |-> optional,
     input_default         |-> input_default,
     filter                |-> filter,
     has_filter_dependency |-> has_filter_dependency(filter),
     is_conditional        |-> value_options # <<>>,
     value_options         |-> value_options,
     value                 |-> None]

Condition(dep, pattern) == [dep |-> dep, pattern |-> pattern]

Option(dep, pattern, value) ==
    [condition |-> Condition(dep, pattern), value |-> Str(value)]

\* the persisted configuration: top-level keys and the environment blocks
LeanConfig(top, envs) == [none |-> FALSE, top |-> top, envs |-> envs]

NoLeanConfig == [none |-> TRUE, top |-> <<>>, envs |-> <<>>]

EnvBlock(entries, props) == [entries |-> entries, properties |-> props]

\* what a call left behind
NoCall ==
    [op |-> "none", error |-> "none", missing |-> <<>>, active |-> <<>>,
     prompted |-> <<>>, saved |-> <<>>, settings |-> <<>>]

---------------------------------------------------------------------------
(* The invocations explored: entry ids, values and sources                 *)

KA == <<"k", "-", "a">>

KB == <<"k", "-", "b">>

KC == <<"k", "-", "c">>

KM == <<"k", "-", "m">>

LIVE == <<"live">>

Brokerage == Str(<<"brokerage">>)

Cli == Str(<<"cli">>)

\* every dict that takes one contribution of every set of S1, S2 (in that order)
Join(S1, S2) == {a \o b : a \in S1, b \in S2}

\* the CLI-option contributions for a key: absent, unset (None), empty, set
CliOptions(k) ==
    {<<>>,
     << <<k, None>> >>,
     << <<k, Str(<<>>)>> >>,
     << <<convert_lean_key_to_variable(k), Str(<<"c">>)>> >>}

\* the properties contributions for a key: absent, empty, whitespace, set
PropertyOptions(k) ==
    {<<>>,
     << <<k, Str(<<>>)>> >>,
     << <<k, Str(<<" ">>)>> >>,
     << <<convert_lean_key_to_variable(k), Str(<<"p">>)>> >>}

\* the top-level persisted contributions for a key
TopOptions(k) ==
    {<<>>,
     << <<k, Str(<<>>)>> >>,
     << <<k, Str(<<"d">>)>> >>}

\* the environment of the invocation: its name and the environment blocks
EnvOptions(k) ==
    {[name |-> None, envs |-> <<>>],
     [name |-> None, envs |-> << <<LIVE, EnvBlock(<< <<k, Str(<<"e">>)>> >>, <<>>)>> >>],
     [name |-> Str(LIVE),
      envs |-> << <<LIVE, EnvBlock(<< <<k, Str(<<"e">>)>> >>, <<>>)>> >>]}

Answers == {Str(<<"u">>), Str(<<>>)}

AuthAnswers == {Dict(<< <<(<<"token">>), <<"t">> >> >>)}

\* the entry of the resolver schemas: required, optional with and without a
\* declared default, and one the module type filters out
ResolverEntries(k) ==
    {Entry(k, "input", FALSE, None, <<>>, <<>>),
     Entry(k, "input", TRUE, Str(<<"i">>), <<>>, <<>>),
     Entry(k, "input", TRUE, None, <<>>, <<>>),
     Entry(k, "input", FALSE, None,
           <<Condition(MODULE_TYPE, <<"data", "-", "queue">>)>>, <<>>)}

ResolverSchemas ==
    {<<a, Entry(KB, "input", FALSE, None, <<>>, <<>>)>> : a \in ResolverEntries(KA)}

---------------------------------------------------------------------------
(* The module: construction, config_build, get_settings                    *)

NoMerge == [status |-> "no", before |-> <<>>]

IdleMerge == target = <<>> /\ merge = NoMerge

\* JsonModule.__init__ lines 56-65 for a module that declares no installs;
\* ensure_calls and installer_calls count the calls made so far
NoInstall ==
    [declared |-> "absent", installs |-> FALSE, is_module_installed |-> FALSE,
     ensure_calls |-> 0, installer_calls |-> 0]

IdleInstall == install = NoInstall

Init ==
    /\ module_type = Brokerage
    /\ platform = Cli
    /\ \E schema \in ResolverSchemas : configs = sort_configs(schema)
    /\ \E top \in Join(TopOptions(KA), {<<>>, << <<KB, Str(<<"d">>)>> >>}),
          env \in EnvOptions(KA) :
          /\ lean_config = LeanConfig(top, env.envs)
          /\ environment_name = env.name
    /\ interactive \in BOOLEAN
    /\ user_provided_options \in CliOptions(KA)
    /\ properties \in Join(PropertyOptions(KA), {<<>>, << <<KB, Str(<<>>)>> >>})
    /\ ambient = FALSE
    /\ last = NoCall
    /\ IdleMerge
    /\ IdleInstall

Invocation(answer, auth_answer) ==
    [lean_config           |-> lean_config,
     environment_name      |-> environment_name,
     interactive           |-> interactive,
     user_provided_options |-> user_provided_options,
     properties            |-> properties,
     answer                |-> answer,
     auth_answer           |-> auth_answer]

ConfigBuild ==
    \E answer \in Answers, auth_answer \in AuthAnswers :
        LET r == config_build(configs, Invocation(answer, auth_answer))
        IN /\ configs' = r.cfgs
           /\ last' = [op       |-> "config_build",
                       error    |-> r.error,
                       missing  |-> r.missing,
                       active   |-> r.active,
                       prompted |-> r.prompted,
                       saved    |-> r.saved,
                       settings |-> <<>>]
           /\ UNCHANGED <<module_type, platform, lean_config, environment_name,
                          interactive, user_provided_options, properties, ambient>>
           /\ UNCHANGED mergeVars
           /\ UNCHANGED installVars

GetSettings ==
    LET r == get_settings(configs, ambient, lean_config, environment_name)
    IN /\ configs' = r.cfgs
       /\ last' = [NoCall EXCEPT !.op = "get_settings", !.settings = r.settings]
       /\ UNCHANGED <<module_type, platform, lean_config, environment_name,
                      interactive, user_provided_options, properties, ambient>>
       /\ UNCHANGED mergeVars
       /\ UNCHANGED installVars

Next == ConfigBuild \/ GetSettings

Spec == Init /\ [][Next]_vars


---------------------------------------------------------------------------
(* What the claims speak of, read off the invocation itself               *)

Range(seq) == {seq[i] : i \in DOMAIN seq}

Spellings(id) == {id, [i \in DOMAIN id |-> IF id[i] = "-" THEN "_" ELSE id[i]]}

\* the values a channel holds for an entry under either spelling of its id
Supplied(channel, id) ==
    {channel[j][2] : j \in {n \in DOMAIN channel : channel[n][1] \in Spellings(id)}}

KeyIn(channel, id) == Supplied(channel, id) # {}

Blank(v) == v = None \/ (v.t = "str" /\ \A n \in DOMAIN v.s : v.s[n] \in {" ", "NL"})

\* the values a dict holds under exactly this key
Lookup(dct, k) == {dct[j][2] : j \in {n \in DOMAIN dct : dct[n][1] = k}}

\* the persisted default: the block of the current environment, then the top level
PersistedDefault(id) ==
    LET inBlock ==
            IF environment_name.t = "str" /\ environment_name.s # <<>>
            THEN UNION {Lookup(block.entries, id) :
                           block \in Lookup(lean_config.envs, environment_name.s)}
            ELSE {}
    IN IF lean_config.none THEN {}
       ELSE IF inBlock # {} THEN inBlock
       ELSE Lookup(lean_config.top, id)

Built == last.op = "config_build"

Resolved(i) == Built /\ i \in Range(last.active)

Flag(id) == <<"--">> \o id

---------------------------------------------------------------------------
(* C1  Source precedence in config_build.  For every entry that passed the *)
(* filter gate: a non-blank value supplied in the CLI options is the       *)
(* resolved value, whatever the properties and the persisted default hold; *)
(* with no CLI value (key absent or None) a non-blank properties value is  *)
(* the resolved value, whatever the persisted default holds; with the key  *)
(* in neither channel a non-blank persisted default (environment block of  *)
(* the current environment name, then top level) is the resolved value.    *)

CliValues(id) == {v \in Supplied(user_provided_options, id) : v # None}

C2_ExplicitEmptyNotMissing ==
    (Built /\ ~interactive) =>
        /\ \A i \in DOMAIN configs :
              (/\ Resolved(i)
               /\ ~configs[i].optional
               /\ Str(<<>>) \in Supplied(properties, configs[i].id))
              => Flag(configs[i].id) \notin Range(last.missing)
        /\ last.missing = <<>> => last.error = "none"

\* a required entry resolved to the explicit empty string of the properties
C2_Witness ==
    /\ Built /\ ~interactive /\ last.error = "none"
    /\ \E i \in DOMAIN configs :
          /\ Resolved(i)
          /\ ~configs[i].optional
          /\ Str(<<>>) \in Supplied(properties, configs[i].id)
          /\ CliValues(configs[i].id) = {}
          /\ configs[i].value = Str(<<>>)

(* C3  (as stated) The entries listed in the missing-options failure of a  *)
(* non-interactive config_build are exactly the required entries absent    *)
(* from every source: CLI options, properties and persisted default.       *)

AbsentFromEverySource(id) ==
    /\ ~KeyIn(user_provided_options, id)
    /\ ~KeyIn(properties, id)
    /\ PersistedDefault(id) = {}

C3_AsStated ==
    (Built /\ ~interactive) =>
        Range(last.missing) =
            {Flag(configs[i].id) :
                i \in {n \in DOMAIN configs :
                          ~configs[n].optional /\ AbsentFromEverySource(configs[n].id)}}

(* C3  (amended) The entries listed are exactly the required entries that  *)
(* passed the filter gate, whose key is in neither the CLI options nor the *)
(* properties, and whose persisted default is absent or blank; they are    *)
(* listed once each in one failure, raised exactly when the list is not    *)
(* empty.                                                                  *)

GenuinelyMissing(i) ==
    /\ Resolved(i)
    /\ ~configs[i].optional
    /\ ~KeyIn(user_provided_options, configs[i].id)
    /\ ~KeyIn(properties, configs[i].id)
    /\ \A v \in PersistedDefault(configs[i].id) : Blank(v)

C3_MissingSet ==
    (Built /\ ~interactive) =>
        /\ Range(last.missing) =
              {Flag(configs[i].id) : i \in {n \in DOMAIN configs : GenuinelyMissing(n)}}
        /\ Cardinality(Range(last.missing)) = Len(last.missing)
        /\ (last.error = "missing") <=> (last.missing # <<>>)
        /\ last.error \in {"none", "missing"}

\* two entries are listed by the same failure, one of them with a blank default
C3_Witness ==
    /\ Built /\ ~interactive /\ last.error = "missing"
    /\ Len(last.missing) = 2
    /\ \E i \in DOMAIN configs :
          GenuinelyMissing(i) /\ PersistedDefault(configs[i].id) # {}

---------------------------------------------------------------------------
(* Value normalization: one plain entry and one composite auth entry whose *)
(* values come from the persisted configuration, over every string of up   *)
(* to MaxValueLen characters                                               *)

MaxValueLen == 4

ValueChars == {BACKSLASH, "n", "/", "a"}

StringsUpTo(chars, n) == UNION {[1..k -> chars] : k \in 0..n}

TOKEN == <<"token">>

NormSchema ==
    <<Entry(KA, "input", TRUE, None, <<>>, <<>>),
      Entry(KM, "auth", TRUE, None, <<>>, <<>>)>>

InitNorm ==
    /\ module_type = Brokerage
    /\ platform = Cli
    /\ configs = sort_configs(NormSchema)
    /\ \E s \in StringsUpTo(ValueChars, MaxValueLen),
          m \in {<<"a">>, <<"a", BACKSLASH, "a">>, <<BACKSLASH, "n">>} :
          lean_config =
              LeanConfig(<< <<KA, Str(s)>>, <<KM, Dict(<< <<TOKEN, m>> >>)>> >>, <<>>)
    /\ environment_name = None
    /\ interactive = FALSE
    /\ user_provided_options = <<>>
    /\ properties = <<>>
    /\ ambient = FALSE
    /\ last = NoCall
    /\ IdleMerge
    /\ IdleInstall

SpecNorm == InitNorm /\ [][Next]_vars

Count(s, c) == Cardinality({n \in DOMAIN s : s[n] = c})

\* the escaped newlines of a string: a backslash directly followed by n
Escapes(s) == {n \in DOMAIN s : s[n] = BACKSLASH /\ n < Len(s) /\ s[n + 1] = "n"}

Got == last.op = "get_settings"

\* the plain entries whose string value get_settings emitted under their id
EmittedPlain ==
    {i \in DOMAIN configs :
        /\ Got
        /\ configs[i].kind # "auth"
        /\ configs[i].value.t = "str"
        /\ Lookup(last.settings, configs[i].id) # {}}

\* the composite entries whose mapping get_settings emitted
EmittedComposite ==
    {i \in DOMAIN configs :
        Got /\ configs[i].kind = "auth" /\ configs[i].value.t = "dict"}

(* C8  (as stated) Every backslash of a resolved value is emitted as a     *)
(* forward slash, also one that is followed by n and also in the           *)
(* sub-values of a composite auth entry: no emitted value holds a          *)
(* backslash.                                                              *)

C8_AsStated ==
    /\ \A i \in EmittedPlain :
          \A out \in Lookup(last.settings, configs[i].id) :
              /\ Len(out) = Len(configs[i].value.s)
              /\ \A n \in DOMAIN out :
                    configs[i].value.s[n] = BACKSLASH => out[n] = "/"
    /\ \A i \in EmittedComposite :
          \A n \in DOMAIN configs[i].value.d :
              \A out \in Lookup(last.settings, configs[i].value.d[n][1]) :
                  ~Contains(out, BACKSLASH)

(* C8  (amended) For every active non-composite entry, every backslash of  *)
(* the resolved value that does not start an escaped newline (backslash    *)
(* followed by n) is emitted as a forward slash and no emitted value holds *)
(* a backslash; the sub-values of a composite auth entry are emitted as    *)
(* they are, backslashes included.                                         *)

C8_BackslashToSlash ==
    /\ \A i \in EmittedPlain :
          \A out \in Lookup(last.settings, configs[i].id) :
              LET v == configs[i].value.s
              IN /\ ~Contains(out, BACKSLASH)
                 /\ Count(out, "/") =
                       Count(v, "/") + Count(v, BACKSLASH) - Cardinality(Escapes(v))
                 /\ Len(out) = Len(v) - Cardinality(Escapes(v))
    /\ \A i \in EmittedComposite :
          \A n \in DOMAIN configs[i].value.d :
              Lookup(last.settings, configs[i].value.d[n][1]) = {configs[i].value.d[n][2]}

\* a value with a bare backslash and an escaped newline was emitted, beside a
\* composite sub-value that holds a backslash
C8_Witness ==
    /\ \E i \in EmittedPlain :
          /\ Escapes(configs[i].value.s) # {}
          /\ Count(configs[i].value.s, BACKSLASH) > Cardinality(Escapes(configs[i].value.s))
          /\ \E out \in Lookup(last.settings, configs[i].id) : Contains(out, "/")
    /\ \E i \in EmittedComposite :
          \E n \in DOMAIN configs[i].value.d : Contains(configs[i].value.d[n][2], BACKSLASH)

(* C9  For every active non-composite entry each escaped newline           *)
(* (backslash followed by n) of the resolved value is emitted as one       *)
(* newline character; the replacement comes before the backslash-to-slash  *)
(* replacement, so no escaped newline is emitted as slash followed by n.   *)

C9_NewlineFirst ==
    \A i \in EmittedPlain :
        \A out \in Lookup(last.settings, configs[i].id) :
            LET v == configs[i].value.s
            IN /\ Count(out, NEWLINE) = Count(v, NEWLINE) + Cardinality(Escapes(v))
               /\ Count(out, "n") = Count(v, "n") - Cardinality(Escapes(v))
               /\ \A n \in Escapes(v) :
                     out[n - Cardinality({m \in Escapes(v) : m < n})] = NEWLINE

\* a value with two escaped newlines was emitted
C9_Witness ==
    \E i \in EmittedPlain :
        /\ Cardinality(Escapes(configs[i].value.s)) = 2
        /\ \E out \in Lookup(last.settings, configs[i].id) : Count(out, NEWLINE) = 2

---------------------------------------------------------------------------
(* Filters and conditional entries: a plain entry k-a, a composite auth    *)
(* entry k-m, and two entries k-b, k-c that depend on them through a       *)
(* filter or through conditional value options, in both declared orders    *)

SubU == <<"u">>

SubV == <<"v">>

DependentB ==
    {Entry(KB, "input", TRUE, None, <<Condition(KA, <<"x">>)>>, <<>>),
     Entry(KB, "input", TRUE, None, <<Condition(KM, <<"x">>)>>, <<>>),
     Entry(KB, "input", TRUE, None,
           <<Condition(KM, <<"x">>), Condition(KM, <<"y">>)>>, <<>>),
     Entry(KB, "input", TRUE, None,
           <<Condition(KM, <<"x">>), Condition(KA, <<"x">>)>>, <<>>),
     Entry(KB, "path", TRUE, None,
           <<Condition(KM, <<"x">>), Condition(KA, <<"x">>)>>, <<>>),
     Entry(KB, "input", TRUE, None,
           <<Condition(MODULE_TYPE, <<"brokerage">>), Condition(KA, <<"x">>)>>, <<>>),
     Entry(KB, "internal", TRUE, None, <<>>,
           <<Option(KA, <<"x">>, <<"x">>), Option(KA, <<"y">>, <<"y">>)>>)}

DependentC ==
    {Entry(KC, "internal", TRUE, None, <<>>, <<Option(KA, <<"x">>, <<"1">>)>>),
     Entry(KC, "internal", TRUE, None, <<>>,
           <<Option(KB, <<"x">>, <<"1">>), Option(KB, <<"y">>, <<"2">>)>>),
     Entry(KC, "input", TRUE, None, <<Condition(KB, <<"x">>)>>, <<>>)}

CondSchemas ==
    LET a == Entry(KA, "input", TRUE, None, <<>>, <<>>)
        m == Entry(KM, "auth", TRUE, None, <<>>, <<>>)
    IN UNION {{<<a, m, b, c>>, <<a, m, c, b>>} : b \in DependentB, c \in DependentC}

\* the persisted composite value of k-m
Composites ==
    {<<>>,
     << <<KM, Dict(<<>>)>> >>,
     << <<KM, Dict(<< <<SubU, <<"x">> >>, <<SubV, <<"x">> >> >>)>> >>,
     << <<KM, Dict(<< <<SubU, <<"x">> >>, <<SubV, <<"y">> >> >>)>> >>}

InitCond ==
    /\ module_type = Brokerage
    /\ platform = Cli
    /\ \E schema \in CondSchemas : configs = sort_configs(schema)
    /\ \E m \in Composites,
          b \in {<<>>, << <<KB, Str(<<"x">>)>> >>},
          c \in {<<>>, << <<KC, Str(<<"s">>)>> >>} :
          lean_config = LeanConfig(m \o b \o c, <<>>)
    /\ environment_name = None
    /\ interactive = FALSE
    /\ user_provided_options = <<>>
    /\ properties \in {<<>>, << <<KA, Str(<<"x">>)>> >>, << <<KA, Str(<<"y">>)>> >>}
    /\ ambient \in BOOLEAN
    /\ last = NoCall
    /\ IdleMerge
    /\ IdleInstall

SpecCond == InitCond /\ [][Next]_vars

\* the current value of the entry a condition names (entry ids are unique)
ValuesOf(id) == {configs[j].value : j \in {n \in DOMAIN configs : configs[n].id = id}}

Holds(condition, v) == v.t = "str" /\ v.s = condition.pattern

Conditional(i) == configs[i].kind = "internal" /\ configs[i].value_options # <<>>

\* no option of the conditional entry has a condition that holds
Unmatched(i) ==
    \A n \in DOMAIN configs[i].value_options :
        \A v \in ValuesOf(configs[i].value_options[n].condition.dep) :
            ~Holds(configs[i].value_options[n].condition, v)

\* the options of the entry depend on entries that are not conditional themselves
DependsOnPlain(i) ==
    \A n \in DOMAIN configs[i].value_options :
        \A j \in DOMAIN configs :
            configs[j].id = configs[i].value_options[n].condition.dep => ~Conditional(j)

(* C4  For every conditional entry none of whose value options has a       *)
(* matching condition, get_settings returns the empty string under the     *)
(* entry's id, whatever the slot held before the call.  (Stated for the    *)
(* entries that are emitted and whose options depend on plain entries, and *)
(* for a module without ambient context.)                                  *)

C4_UnmatchedIsEmpty ==
    (Got /\ ~ambient) =>
        \A i \in DOMAIN configs :
            (Conditional(i) /\ DependsOnPlain(i) /\ Unmatched(i))
            => \A out \in Lookup(last.settings, configs[i].id) : out = <<>>

(* C5  get_settings is idempotent: a second call right after a first one   *)
(* returns the same map.  (Stated for a module without ambient context.)   *)

C5_Idempotent ==
    [][(Got /\ ~ambient /\ last'.op = "get_settings")
       => last'.settings = last.settings]_vars

(* C10  An entry with a filter condition on an entry whose resolved value  *)
(* is a mapping is active (emitted by get_settings) only if the condition  *)
(* holds for every value of that mapping.  (Stated for a module without    *)
(* ambient context.)                                                       *)

C10_MappingGate ==
    (Got /\ ~ambient) =>
        \A i \in DOMAIN configs :
            \A n \in DOMAIN configs[i].filter :
                \A v \in ValuesOf(configs[i].filter[n].dep) :
                    (v.t = "dict" /\ Lookup(last.settings, configs[i].id) # {})
                    => \A m \in DOMAIN v.d :
                          v.d[m][2] = configs[i].filter[n].pattern

---------------------------------------------------------------------------
(* json_modules_handler._update_settings                                   *)
(*                                                                         *)
(* An override string is a sequence of tokens: a bare word ("A", "None"),  *)
(* a double-quoted word ("QB" is the three characters of a quoted B), a    *)
(* comma, a blank, a bracket.                                              *)

DQH == <<"data", "-", "queue", "-", "handler">>

list_like_keys == {DQH}

_get_env_properties(lc, env) ==
    IF lc.none THEN <<>>
    ELSE IF Truthy(env) /\ Has(lc.envs, env.s)
         THEN Get(lc.envs, env.s).properties
         ELSE <<>>

Quoted == {"QA", "QB", "QC"}

Unquote(q) ==
    CASE q = "QA" -> <<"A">>
      [] q = "QB" -> <<"B">>
      [] OTHER    -> <<"C">>

JsonFail == [ok |-> FALSE, val |-> None, rest |-> <<>>]

\* json.loads on the token strings: a quoted word, or an array of values
RECURSIVE json_value(_), json_elements(_, _)
json_value(s) ==
    IF s = <<>> THEN JsonFail
    ELSE IF Head(s) \in Quoted
         THEN [ok |-> TRUE, val |-> Str(Unquote(Head(s))), rest |-> Tail(s)]
    ELSE IF Head(s) = "["
         THEN LET r == lstrip(Tail(s))
              IN IF r # <<>> /\ Head(r) = "]"
                 THEN [ok |-> TRUE, val |-> List(<<>>), rest |-> Tail(r)]
                 ELSE json_elements(r, <<>>)
    ELSE JsonFail

json_elements(s, acc) ==
    LET v == json_value(s)
    IN IF ~v.ok THEN JsonFail
       ELSE LET r == lstrip(v.rest)
            IN IF r = <<>> THEN JsonFail
               ELSE IF Head(r) = ","
                    THEN json_elements(lstrip(Tail(r)), Append(acc, v.val))
               ELSE IF Head(r) = "]"
                    THEN [ok |-> TRUE, val |-> List(Append(acc, v.val)), rest |-> Tail(r)]
               ELSE JsonFail

loads(s) ==
    LET v == json_value(lstrip(s))
    IN IF v.ok /\ lstrip(v.rest) = <<>> THEN v ELSE JsonFail

\* value.split(",")
RECURSIVE split_from(_, _, _)
split_from(s, cur, out) ==
    IF s = <<>> THEN Append(out, cur)
    ELSE IF Head(s) = "," THEN split_from(Tail(s), <<>>, Append(out, cur))
    ELSE split_from(Tail(s), Append(cur, Head(s)), out)

\* [v.strip() for v in value.split(",") if v.strip()]
csv_split(s) ==
    LET pieces    == split_from(s, <<>>, <<>>)
        stripped  == [i \in DOMAIN pieces |-> Str(strip(pieces[i]))]
        nonEmpty(v) == v.s # <<>>
    IN SelectSeq(stripped, nonEmpty)

\* the characters a token of an override string stands for
token_chars(token) ==
    CASE token \in Quoted  -> <<"\"">> \o Unquote(token) \o <<"\"">>
      [] token = "None"    -> <<"N", "o", "n", "e">>
      [] token = "null"    -> <<"n", "u", "l", "l">>
      [] OTHER             -> <<token>>

\* list(s) of a string: its characters, each a string of its own
RECURSIVE chars_of(_)
chars_of(s) ==
    IF s = <<>> THEN <<>>
    ELSE [i \in DOMAIN token_chars(Head(s)) |-> Str(<<token_chars(Head(s))[i]>>)]
         \o chars_of(Tail(s))

\* list(value) of a value that is not a list: the characters, the keys
as_list(value) ==
    CASE value.t = "list" -> value.l
      [] value.t = "str"  -> chars_of(value.s)
      [] value.t = "dict" -> [i \in DOMAIN value.d |-> Str(value.d[i][1])]
      [] OTHER            -> <<>>

\* the parse without the empty-ish rule
parse_override_no_emptyish(value) ==
    IF value.t # "str" THEN as_list(value)
    ELSE LET j == loads(value.s)
         IN IF j.ok THEN (IF j.val.t = "list" THEN j.val.l ELSE <<j.val>>)
            ELSE IF Contains(value.s, ",") THEN csv_split(value.s)
            ELSE <<value>>

\* parsed_value of a list-like override
parse_override(value) ==
    IF value.t # "str" THEN as_list(value)
    ELSE IF strip(value.s) \in {<<>>, <<"None">>, <<"null">>} THEN <<>>
    ELSE LET j == loads(value.s)
         IN IF j.ok THEN (IF j.val.t = "list" THEN j.val.l ELSE <<j.val>>)
            ELSE IF Contains(value.s, ",") THEN csv_split(value.s)
            ELSE <<value>>

\* hash(value) succeeds
hashable(value) == value.t \in {"none", "str"}

\* list(dict.fromkeys(items).keys())
RECURSIVE fromkeys(_, _)
fromkeys(items, out) ==
    IF items = <<>> THEN out
    ELSE fromkeys(Tail(items),
                  IF \E i \in DOMAIN out : out[i] = Head(items)
                  THEN out ELSE Append(out, Head(items)))

\* an iteration that never overwrites a key the target already has
update_one_keep_existing(tgt, key, value) ==
    IF value.t = "none" \/ Has(tgt, key) THEN [target |-> tgt, raised |-> FALSE]
    ELSE [target |-> Put(tgt, key, value), raised |-> FALSE]

\* one iteration of the loop over env_props.items()
update_one(tgt, key, value) ==
    IF value.t = "none" THEN [target |-> tgt, raised |-> FALSE]
    ELSE IF ~Has(tgt, key) THEN [target |-> Put(tgt, key, value), raised |-> FALSE]
    ELSE IF key \in list_like_keys
         THEN LET parsed_value == parse_override(value)
                  existing     == IF Truthy(Get(tgt, key))
                                  THEN as_list(Get(tgt, key)) ELSE <<>>
                  items        == existing \o parsed_value
              IN IF \E i \in DOMAIN items : ~hashable(items[i])
                 THEN [target |-> tgt, raised |-> TRUE]
                 ELSE [target |-> Put(tgt, key, List(fromkeys(items, <<>>))),
                       raised |-> FALSE]
    ELSE [target |-> Put(tgt, key, value), raised |-> FALSE]

RECURSIVE update_from(_, _, _)
update_from(env_props, i, acc) ==
    IF i > Len(env_props) \/ acc.raised THEN acc
    ELSE update_from(env_props, i + 1,
                     update_one(acc.target, env_props[i][1], env_props[i][2]))

_update_settings(tgt, lc, env) ==
    update_from(_get_env_properties(lc, env), 1, [target |-> tgt, raised |-> FALSE])

---------------------------------------------------------------------------
(* Merging an environment's properties into a settings map                 *)

MaxOverrideLen == 4

MergeChars == {"A", "QA", "QB", ",", " ", "[", "]"}

ExampleOverrides ==
    {<<"A", ",", " ", "B">>, <<"[", "QB", ",", "QC", "]">>, <<"None">>, <<"null">>,
     <<" ", "null", " ">>}

Overrides ==
    {None, List(<<Str(<<"B">>), Str(<<"A">>)>>), List(<<List(<<Str(<<"B">>)>>)>>)}
    \cup {Str(s) : s \in StringsUpTo(MergeChars, MaxOverrideLen) \cup ExampleOverrides}

Targets ==
    {<<>>,
     << <<DQH, List(<<Str(<<"A">>)>>)>> >>,
     << <<DQH, List(<<Str(<<"B">>), Str(<<"A">>)>>)>> >>,
     << <<DQH, Str(<<"B", "A">>)>> >>}

\* the scalar side of a merge: overrides of k-a, and targets with k-a, k-b
ScalarOverrides ==
    {<<>>,
     << <<KA, None>> >>,
     << <<KA, Str(<<>>)>> >>,
     << <<KA, Str(<<"p">>)>> >>,
     << <<KA, List(<<Str(<<"B">>)>>)>> >>}

ScalarTargets ==
    {<<>>,
     << <<KA, Str(<<"o">>)>> >>,
     << <<KA, Str(<<"o">>)>>, <<KB, Str(<<"o">>)>> >>}

\* the list-like overrides that go with the scalar side
SomeOverrides == {None, Str(<<"A", ",", " ", "B">>), Str(<<"[", "[", "]", "]">>)}

\* the environment properties and the target explored: every list-like
\* override alone, and some of them before or after a scalar override
MergeCases ==
    {[props |-> << <<DQH, value>> >>, target |-> t] : value \in Overrides, t \in Targets}
    \cup UNION {{[props |-> << <<DQH, value>> >> \o sc, target |-> t \o st],
                 [props |-> sc \o << <<DQH, value>> >>, target |-> t \o st]} :
                    value \in SomeOverrides, sc \in ScalarOverrides,
                    t \in Targets, st \in ScalarTargets}
    \cup {[props |-> << <<replace1(DQH, "-", "_"), value>> >>, target |-> t] :
             value \in SomeOverrides, t \in Targets}
    \cup {[props |-> << <<replace1(KA, "-", "_"), Str(<<"p">>)>> >>, target |-> st] :
             st \in ScalarTargets}

InitMerge ==
    /\ module_type = Brokerage
    /\ platform = Cli
    /\ configs = <<>>
    /\ \E case \in MergeCases :
          /\ lean_config = LeanConfig(<<>>, << <<LIVE, EnvBlock(<<>>, case.props)>> >>)
          /\ target = case.target
    /\ environment_name = Str(LIVE)
    /\ interactive = FALSE
    /\ user_provided_options = <<>>
    /\ properties = <<>>
    /\ ambient = FALSE
    /\ last = NoCall
    /\ merge = NoMerge
    /\ IdleInstall

UpdateSettings ==
    LET r == _update_settings(target, lean_config, environment_name)
    IN /\ target' = r.target
       /\ merge' = [status |-> IF r.raised THEN "raised" ELSE "done",
                    before |-> target]
       /\ UNCHANGED moduleVars
       /\ UNCHANGED installVars

NextMerge == UpdateSettings

SpecMerge == InitMerge /\ [][NextMerge]_vars

\* the override of the list-like key, and its value before and after the call
Override ==
    IF Has(_get_env_properties(lean_config, environment_name), DQH)
    THEN Get(_get_env_properties(lean_config, environment_name), DQH)
    ELSE None

Existing == Get(merge.before, DQH)

Called == merge.status # "no"

Emptyish(value) ==
    value.t = "str" /\ strip(value.s) \in {<<>>, <<"None">>, <<"null">>}

\* the order-preserving, duplicate-free version of a sequence
RECURSIVE Dedup(_)
Dedup(seq) ==
    IF seq = <<>> THEN <<>>
    ELSE LET front == Dedup(SubSeq(seq, 1, Len(seq) - 1))
             x     == seq[Len(seq)]
         IN IF x \in Range(front) THEN front ELSE Append(front, x)

\* the parse the claim lists: native list, JSON, comma split, single element
ClaimParse(value) ==
    IF value.t = "list" THEN value.l
    ELSE IF loads(value.s).ok
         THEN (IF loads(value.s).val.t = "list"
               THEN loads(value.s).val.l ELSE <<loads(value.s).val>>)
    ELSE IF Contains(value.s, ",") THEN csv_split(value.s)
    ELSE <<value>>

(* C6  For the list-like key already present in the target with an         *)
(* existing sequence, the merged value is the order-preserving,            *)
(* duplicate-free union of the existing elements followed by the parsed    *)
(* override.  (Empty-ish override strings are the subject of C7.)          *)

C6_ListLikeMerge ==
    (Called /\ Has(merge.before, DQH) /\ Existing.t = "list"
       /\ Override.t # "none" /\ ~Emptyish(Override))
    => /\ merge.status = "done"
       /\ Get(target, DQH) = List(Dedup(Existing.l \o ClaimParse(Override)))

(* C7 as stated: with the existing value ["A"], an override of "" gives    *)
(* the empty sequence.                                                     *)

C7_AsStated ==
    (Called /\ merge.before = << <<DQH, List(<<Str(<<"A">>)>>)>> >>
       /\ Override = Str(<<>>))
    => Get(target, DQH) = List(<<>>)

(* C7  With the existing value ["A"], an override of "" contributes no     *)
(* element: the merged value is ["A"].                                     *)

C7_EmptyOverrideKeeps ==
    (Called /\ merge.before = << <<DQH, List(<<Str(<<"A">>)>>)>> >>
       /\ Override = Str(<<>>))
    => /\ merge.status = "done"
       /\ Get(target, DQH) = List(<<Str(<<"A">>)>>)

C7_Witness ==
    /\ merge.status = "done"
    /\ merge.before = << <<DQH, List(<<Str(<<"A">>)>>)>> >>
    /\ Override = Str(<<>>)
    /\ Get(target, DQH) = List(<<Str(<<"A">>)>>)

---------------------------------------------------------------------------
(* Schemas at the edges: a filter or a conditional option that names an id *)
(* no entry has, an id two entries share, a required conditional entry     *)
(* with overlapping options, an entry or a composite sub-key named id      *)

KZ == <<"k", "-", "z">>

ID == <<"id">>

EdgeB ==
    {Entry(KB, "input", TRUE, None, <<Condition(KZ, <<"x">>)>>, <<>>),
     Entry(KB, "input", TRUE, None, <<Condition(KA, <<"x">>)>>, <<>>),
     Entry(KB, "internal", FALSE, None, <<>>,
           <<Option(KA, <<"x">>, <<"1">>), Option(KA, <<"x">>, <<"2">>),
             Option(KA, <<"y">>, <<"3">>)>>),
     Entry(KB, "internal", TRUE, None, <<>>, <<Option(KZ, <<"x">>, <<"1">>)>>),
     Entry(ID, "input", TRUE, None, <<>>, <<>>),
     Entry(KA, "input", TRUE, None, <<>>, <<>>)}

EdgeC ==
    {Entry(KC, "input", TRUE, None, <<>>, <<>>),
     Entry(KC, "input", TRUE, None, <<Condition(KA, <<"x">>)>>, <<>>)}

EdgeSchemas ==
    LET a == Entry(KA, "input", TRUE, None, <<>>, <<>>)
        m == Entry(KM, "auth", TRUE, None, <<>>, <<>>)
    IN {<<a, m, b, c>> : b \in EdgeB, c \in EdgeC}

EdgeComposites ==
    {<<>>,
     << <<KM, Dict(<< <<TOKEN, <<"t">> >> >>)>> >>,
     << <<KM, Dict(<< <<ID, <<"z">> >> >>)>> >>}

InitEdge ==
    /\ module_type = Brokerage
    /\ platform = Cli
    /\ \E schema \in EdgeSchemas : configs = sort_configs(schema)
    /\ \E m \in EdgeComposites,
          b \in {<<>>, << <<KB, Str(<<"s">>)>> >>},
          c \in {<<>>, << <<KC, Str(<<"s">>)>> >>} :
          lean_config = LeanConfig(m \o b \o c, <<>>)
    /\ environment_name = None
    /\ interactive \in BOOLEAN
    /\ user_provided_options = <<>>
    /\ properties \in {<<>>, << <<KA, Str(<<"x">>)>> >>, << <<KA, Str(<<"y">>)>> >>}
    /\ ambient = FALSE
    /\ last = NoCall
    /\ IdleMerge
    /\ IdleInstall

SpecEdge == InitEdge /\ [][Next]_vars

\* the first condition of the entry's filter names an id that is not the id
\* of exactly one entry: evaluating the filter fails
FilterLookupFails(i) ==
    /\ configs[i].filter # <<>>
    /\ configs[i].filter[1].dep \notin {MODULE_TYPE, MODULE_PLATFORM}
    /\ Cardinality({j \in DOMAIN configs : configs[j].id = configs[i].filter[1].dep}) # 1

SharesId(i) == \E j \in DOMAIN configs : j # i /\ configs[j].id = configs[i].id

\* the keys an entry writes when it is emitted
EmittedKeys(i) ==
    IF configs[i].kind = "auth" /\ configs[i].value.t = "dict"
    THEN {configs[i].value.d[n][1] : n \in DOMAIN configs[i].value.d}
    ELSE {configs[i].id}

\* the value a condition of a filter is checked against
TargetsOf(condition) ==
    IF condition.dep = MODULE_TYPE THEN {module_type}
    ELSE IF condition.dep = MODULE_PLATFORM THEN {platform}
    ELSE ValuesOf(condition.dep)

\* every condition of the entry's filter holds on the one plain value it names
PassesOnScalars(i) ==
    \A n \in DOMAIN configs[i].filter :
        /\ configs[i].filter[n].dep \in {MODULE_TYPE, MODULE_PLATFORM}
           \/ Cardinality({j \in DOMAIN configs :
                              configs[j].id = configs[i].filter[n].dep}) = 1
        /\ \A v \in TargetsOf(configs[i].filter[n]) : Holds(configs[i].filter[n], v)

(* C11  get_settings returns a map whatever the schema: an entry whose     *)
(* filter cannot be evaluated (its dependent id names no entry, or more    *)
(* than one) is left out of the map, and every entry whose filter is empty *)
(* or passes is still emitted, the ones after the failing entry included;  *)
(* a conditional option whose dependent id names no entry is no failure.   *)

C11_NeverRaises ==
    Got =>
        /\ last.error = "none"
        /\ \A i \in DOMAIN configs :
              /\ (FilterLookupFails(i) /\ ~SharesId(i))
                    => Lookup(last.settings, configs[i].id) = {}
              /\ PassesOnScalars(i)
                    => \A k \in EmittedKeys(i) : Lookup(last.settings, k) # {}

\* a failing entry is left out while an entry processed after it is emitted
C11_Witness ==
    /\ Got
    /\ \E i, j \in DOMAIN configs :
          /\ i < j
          /\ FilterLookupFails(i) /\ ~SharesId(i)
          /\ Lookup(last.settings, configs[i].id) = {}
          /\ configs[j].filter # <<>> /\ PassesOnScalars(j)
          /\ Lookup(last.settings, configs[j].id) # {}

(* C12  config_build ends either normally or with the aggregated           *)
(* missing-options failure: a filter condition whose dependent id matches  *)
(* no entry, or more than one, never makes the call fail, in interactive   *)
(* and in non-interactive mode.                                            *)

C12_OnlyMissingFailure ==
    Built => last.error \in {"none", "missing"}

(* C13  The map returned by get_settings holds the key id, and its value   *)
(* is the module's own id, also when an entry is named id or a composite   *)
(* entry has a sub-key id.                                                 *)

C13_ModuleId ==
    Got => Lookup(last.settings, ID) = {self_id}

(* C16  A non-interactive config_build never lists a conditional entry in  *)
(* the missing-options failure.                                            *)

C16_ConditionalNeverMissing ==
    (Built /\ ~interactive) =>
        \A i \in DOMAIN configs :
            Conditional(i) => Flag(configs[i].id) \notin Range(last.missing)

\* a condition of a filter holds on a value: on the value itself, or on every
\* value of a mapping
Satisfies(condition, v) ==
    CASE v.t = "str"  -> v.s # <<>> /\ Holds(condition, v)
      [] v.t = "dict" -> v.d # <<>> /\ \A m \in DOMAIN v.d : v.d[m][2] = condition.pattern
      [] OTHER        -> FALSE

(* C15  An entry is active (emitted by get_settings) only if every         *)
(* condition of its filter passes, whatever the position of the condition  *)
(* in the filter, also after a condition whose target is a mapping.        *)
(* (Stated for a module without ambient context.)                          *)

C15_FilterConjunction ==
    (Got /\ ~ambient) =>
        \A i \in DOMAIN configs :
            Lookup(last.settings, configs[i].id) # {}
            => \A n \in DOMAIN configs[i].filter :
                  \A v \in TargetsOf(configs[i].filter[n]) :
                      Satisfies(configs[i].filter[n], v)

(* C17  When config_build evaluates the filter of an entry that depends on *)
(* another entry's value, the loop has already processed that other entry: *)
(* in the order config_build walks the entries, every entry a filter names *)
(* comes before the entry that carries the filter.                         *)

C17_DependencyFirst ==
    Built =>
        \A i \in DOMAIN configs :
            \A n \in DOMAIN configs[i].filter :
                \A j \in DOMAIN configs :
                    configs[j].id = configs[i].filter[n].dep => j < i

\* the options of a conditional entry whose condition holds on the value of
\* the entry it names
MatchingOptions(i) ==
    {n \in DOMAIN configs[i].value_options :
        /\ ValuesOf(configs[i].value_options[n].condition.dep) # {}
        /\ \A v \in ValuesOf(configs[i].value_options[n].condition.dep) :
              Holds(configs[i].value_options[n].condition, v)}

FirstMatching(i) == CHOOSE n \in MatchingOptions(i) : \A m \in MatchingOptions(i) : n <= m

(* C18  For a conditional entry with at least one option whose condition   *)
(* holds on the value of the entry it depends on, the value get_settings   *)
(* emits is the value of the first such option in declared order, whatever *)
(* later options match and whatever the sources supplied for the entry.    *)
(* (Stated for a module without ambient context.)                          *)

C18_FirstMatchWins ==
    (Got /\ ~ambient) =>
        \A i \in DOMAIN configs :
            (Conditional(i) /\ MatchingOptions(i) # {})
            => \A out \in Lookup(last.settings, configs[i].id) :
                  out = configs[i].value_options[FirstMatching(i)].value.s

\* the environment properties of the merge
EnvProps == _get_env_properties(lean_config, environment_name)

(* C14  After a merge that returned: for every key of the environment      *)
(* properties that is not list-like, the target holds the override when    *)
(* the override is not None (inserted or overwritten), and what it held    *)
(* before (or still nothing) when the override is None; the keys of the    *)
(* target that the environment properties do not name are unchanged.       *)

C14_ScalarMerge ==
    merge.status = "done" =>
        /\ \A key \in Keys(EnvProps) \ list_like_keys :
              \A v \in Lookup(EnvProps, key) :
                  IF v # None
                  THEN Lookup(target, key) = {v}
                  ELSE Lookup(target, key) = Lookup(merge.before, key)
        /\ \A key \in Keys(merge.before) \ Keys(EnvProps) :
              Lookup(target, key) = Lookup(merge.before, key)
        /\ Keys(target) = Keys(merge.before)
               \cup {key \in Keys(EnvProps) : Lookup(EnvProps, key) # {None}}

\* a scalar key was overwritten while a key the properties do not name stayed
C14_Witness ==
    /\ merge.status = "done"
    /\ Lookup(merge.before, KA) = {Str(<<"o">>)}
    /\ Lookup(EnvProps, KA) = {Str(<<"p">>)}
    /\ Lookup(target, KA) = {Str(<<"p">>)}
    /\ Lookup(merge.before, KB) = {Str(<<"o">>)}
    /\ Lookup(target, KB) = {Str(<<"o">>)}

\* the candidate of an entry, read off the sources: the CLI values that are
\* not None, else the properties, else the persisted default
Candidates(id) ==
    IF CliValues(id) # {} THEN CliValues(id)
    ELSE IF KeyIn(properties, id) THEN Supplied(properties, id)
    ELSE IF PersistedDefault(id) # {} THEN PersistedDefault(id)
    ELSE {None}

ExplicitlyPresent(id) == KeyIn(user_provided_options, id) \/ KeyIn(properties, id)

(* C19  In a non-interactive config_build, a required entry that passed    *)
(* the filter gate and whose candidate is empty is accepted with an empty  *)
(* string value, and not listed as missing, exactly when its key (in       *)
(* either spelling) is in the CLI options or in the properties; otherwise  *)
(* it is listed as missing.                                                *)

C19_ExplicitPresence ==
    (Built /\ ~interactive) =>
        \A i \in DOMAIN configs :
            (/\ Resolved(i)
             /\ ~configs[i].optional
             /\ \A v \in Candidates(configs[i].id) : Blank(v))
            => /\ Flag(configs[i].id) \in Range(last.missing)
                     <=> ~ExplicitlyPresent(configs[i].id)
               /\ ExplicitlyPresent(configs[i].id)
                     => configs[i].value # None /\ Blank(configs[i].value)

\* a required entry accepted because its key is in the CLI options with None
C19_Witness ==
    /\ Built /\ ~interactive
    /\ \E i \in DOMAIN configs :
          /\ Resolved(i)
          /\ ~configs[i].optional
          /\ Supplied(user_provided_options, configs[i].id) = {None}
          /\ ~KeyIn(properties, configs[i].id)
          /\ PersistedDefault(configs[i].id) = {}
          /\ configs[i].value = Str(<<>>)
          /\ Flag(configs[i].id) \notin Range(last.missing)

\* the other spelling of a key, and a dict with every key in its other spelling
OtherSpelling(k) ==
    IF Contains(k, "-") THEN [n \in DOMAIN k |-> IF k[n] = "-" THEN "_" ELSE k[n]]
    ELSE [n \in DOMAIN k |-> IF k[n] = "_" THEN "-" ELSE k[n]]

Respell(dct) == [n \in DOMAIN dct |-> <<OtherSpelling(dct[n][1]), dct[n][2]>>]

RespellPersisted(lc) ==
    [lc EXCEPT !.top  = Respell(lc.top),
               !.envs = [n \in DOMAIN lc.envs |->
                            <<lc.envs[n][1],
                              [lc.envs[n][2] EXCEPT !.entries = Respell(@)]>>]]

\* the outcomes of config_build on the current module for every prompt answer
Outcomes(inv(_, _)) ==
    [answer \in Answers, auth_answer \in AuthAnswers |->
        config_build(configs, inv(answer, auth_answer))]

(* C20 as stated: supplying a value under the other spelling of the entry  *)
(* id gives the same resolution, in the CLI options, in the properties and *)
(* in the persisted configuration.                                         *)

C20_AsStated ==
    LET persisted(a, b) ==
            [Invocation(a, b) EXCEPT !.lean_config = RespellPersisted(@)]
    IN Outcomes(persisted) = Outcomes(Invocation)

(* C20  Supplying a value under the other spelling of the entry id in the  *)
(* CLI options, in the properties, or in both, gives the same resolution:  *)
(* the same values, the same missing list, the same outcome.               *)

C20_SpellingEquivalence ==
    LET cli(a, b)   == [Invocation(a, b) EXCEPT !.user_provided_options = Respell(@)]
        props(a, b) == [Invocation(a, b) EXCEPT !.properties = Respell(@)]
        both(a, b)  == [Invocation(a, b) EXCEPT !.user_provided_options = Respell(@),
                                                !.properties = Respell(@)]
    IN /\ Outcomes(cli) = Outcomes(Invocation)
       /\ Outcomes(props) = Outcomes(Invocation)
       /\ Outcomes(both) = Outcomes(Invocation)

\* an entry was resolved to the value the properties hold under the underscored key
C20_Witness ==
    /\ Built
    /\ \E i \in DOMAIN configs :
          /\ Resolved(i)
          /\ Contains(configs[i].id, "-")
          /\ CliValues(configs[i].id) = {}
          /\ Lookup(properties, OtherSpelling(configs[i].id)) = {configs[i].value}
          /\ ~Blank(configs[i].value)

(* C21  An environment-property key given in underscored form is the same *)
(* key as its hyphenated form: when the target holds the hyphenated key,   *)
(* the override goes into that key (a scalar is overwritten) and no second *)
(* key in the underscored spelling is inserted.                            *)

C21_MergerSpelling ==
    merge.status = "done" =>
        \A key \in Keys(EnvProps) :
            (/\ Contains(key, "_")
             /\ Lookup(EnvProps, key) # {None}
             /\ OtherSpelling(key) \in Keys(merge.before))
            => /\ key \notin Keys(target)
               /\ OtherSpelling(key) \notin list_like_keys
                     => Lookup(target, OtherSpelling(key)) = Lookup(EnvProps, key)

(* C29  Applying _update_settings a second time with the same environment  *)
(* properties leaves the target as the first application left it.          *)

C29_MergeIdempotent ==
    [][(merge.status = "done" /\ merge'.status # "no") => target' = target]_vars

---------------------------------------------------------------------------
(* C23  (as stated) An entry the filter gate finds inactive during         *)
(* config_build has its value slot left unchanged by that call: no source, *)
(* default or prefill value is written to it.                              *)

\* the module type or the platform fails one of the entry's conditions
FilteredOut(i) ==
    \E n \in DOMAIN configs[i].filter :
        \/ /\ configs[i].filter[n].dep = MODULE_TYPE
           /\ module_type # Str(configs[i].filter[n].pattern)
        \/ /\ configs[i].filter[n].dep = MODULE_PLATFORM
           /\ platform # Str(configs[i].filter[n].pattern)

C23_AsStated ==
    [][last'.op = "config_build" =>
          \A i \in DOMAIN configs :
              FilteredOut(i) => configs'[i].value = configs[i].value]_vars

(* C23  (amended) An entry the filter gate finds inactive during           *)
(* config_build is not resolved: it is neither prompted, saved nor listed  *)
(* as missing, and the only value the call writes to its slot is the       *)
(* persisted default of its id, and only when the slot was unset; a slot   *)
(* already set is left unchanged.  An entry inactive at get_settings()     *)
(* time keeps its slot and has no key in the returned map.                 *)

C23_InactiveFrame ==
    [][\A i \in DOMAIN configs :
          FilteredOut(i) =>
              /\ last'.op = "config_build" =>
                    /\ i \notin Range(last'.active) \cup Range(last'.prompted)
                    /\ configs[i].id \notin {item[1] : item \in Range(last'.saved)}
                    /\ Flag(configs[i].id) \notin Range(last'.missing)
                    /\ configs[i].value # None => configs'[i].value = configs[i].value
                    /\ configs[i].value = None =>
                          /\ PersistedDefault(configs[i].id) = {}
                                => configs'[i].value = None
                          /\ \A v \in PersistedDefault(configs[i].id) :
                                configs'[i].value = v
              /\ last'.op = "get_settings" =>
                    /\ configs'[i].value = configs[i].value
                    /\ configs[i].id \notin Keys(last'.settings)]_vars

\* an inactive entry holds its persisted default, written by a config_build
\* whose sources supplied another value for it, and get_settings left it out
C23_Witness ==
    /\ last.op = "get_settings"
    /\ \E i \in DOMAIN configs :
          /\ FilteredOut(i)
          /\ configs[i].value \in PersistedDefault(configs[i].id)
          /\ \E v \in CliValues(configs[i].id) : v # configs[i].value
          /\ configs[i].id \notin Keys(last.settings)

---------------------------------------------------------------------------
(* C26  In an interactive config_build the property writer is called with  *)
(* {entry id: entered value} for every prompted entry that is not a        *)
(* composite auth entry, and every call of the writer is for such an       *)
(* entry: it is never called for a composite auth entry, nor for an entry  *)
(* that was not prompted.                                                  *)

\* the writer was called with {id of entry i: the value entered for it}
Written(i) == <<configs[i].id, configs[i].value>> \in Range(last.saved)

C26_PromptedPersisted ==
    (Built /\ interactive) =>
        /\ \A i \in Range(last.prompted) :
              configs[i].kind # "auth" => Written(i)
        /\ \A i \in DOMAIN configs :
              (configs[i].kind = "auth" /\ ~SharesId(i)) =>
                  configs[i].id \notin {item[1] : item \in Range(last.saved)}
        /\ \A item \in Range(last.saved) :
              \E i \in Range(last.prompted) : configs[i].id = item[1]

---------------------------------------------------------------------------
(* C25  In an interactive config_build every entry that passed the filter  *)
(* gate is prompted exactly when its candidate from the sources is empty   *)
(* (None, or a string of whitespace only); a candidate that is not empty   *)
(* is the resolved value, without a prompt, and a prompted entry holds     *)
(* what the user entered; the missing-options failure is never raised.     *)

EmptyCandidate(id) == \A v \in Candidates(id) : Blank(v)

C25_PromptWhenEmpty ==
    (Built /\ interactive) =>
        /\ last.error # "missing" /\ last.missing = <<>>
        /\ \A i \in DOMAIN configs :
              Resolved(i) =>
                  /\ i \in Range(last.prompted) <=> EmptyCandidate(configs[i].id)
                  /\ ~EmptyCandidate(configs[i].id)
                        => configs[i].value \in Candidates(configs[i].id)
                  /\ EmptyCandidate(configs[i].id)
                        => configs[i].value \in Answers \cup AuthAnswers

\* one build prompted for an entry whose properties value is whitespace and
\* accepted the persisted default of the other entry without a prompt
C25_Witness ==
    /\ Built /\ interactive /\ last.error = "none"
    /\ \E i, j \in DOMAIN configs :
          /\ Resolved(i) /\ Resolved(j)
          /\ Candidates(configs[i].id) = {Str(<<" ">>)}
          /\ i \in Range(last.prompted)
          /\ configs[i].value = Str(<<"u">>)
          /\ j \notin Range(last.prompted)
          /\ configs[j].value = Str(<<"d">>)

(* C27  In a non-interactive config_build an optional entry that passed    *)
(* the filter gate and whose candidate is empty resolves to its declared   *)
(* default when one is declared, and otherwise keeps the empty candidate;  *)
(* in neither case is it listed as missing.                                *)

C27_OptionalDefault ==
    (Built /\ ~interactive) =>
        \A i \in DOMAIN configs :
            (Resolved(i) /\ configs[i].optional /\ EmptyCandidate(configs[i].id))
            => /\ Flag(configs[i].id) \notin Range(last.missing)
               /\ configs[i].value =
                     IF configs[i].input_default # None
                     THEN configs[i].input_default
                     ELSE CHOOSE v \in Candidates(configs[i].id) : TRUE

\* an optional entry with a declared default and an explicitly empty
\* properties value resolved to the declared default
C27_Witness ==
    /\ Built /\ ~interactive
    /\ \E i \in DOMAIN configs :
          /\ Resolved(i)
          /\ configs[i].optional
          /\ configs[i].input_default = Str(<<"i">>)
          /\ Candidates(configs[i].id) = {Str(<<>>)}
          /\ configs[i].value = Str(<<"i">>)
          /\ Flag(configs[i].id) \notin Range(last.missing)

---------------------------------------------------------------------------
(* C28  The filter gate fails closed: an entry one of whose filter         *)
(* conditions has an absent target (None, or empty) is inactive.  It is    *)
(* not resolved by config_build, it has no key in the map get_settings     *)
(* returns, and get_paths_to_mount does not list it.                       *)

Absent(v) ==
    \/ v = None
    \/ v.t = "str" /\ v.s = <<>>
    \/ v.t = "dict" /\ v.d = <<>>
    \/ v.t = "list" /\ v.l = <<>>

AbsentTarget(i) ==
    \E n \in DOMAIN configs[i].filter :
        \E v \in TargetsOf(configs[i].filter[n]) : Absent(v)

\* the entries the filter names carry no filter and no value options, so
\* config_build has given them their value before it evaluates the filter
TargetsSettled(i) ==
    \A n \in DOMAIN configs[i].filter :
        \A j \in DOMAIN configs :
            configs[j].id = configs[i].filter[n].dep
            => configs[j].filter = <<>> /\ configs[j].value_options = <<>>

C28_FailsClosed ==
    \A i \in DOMAIN configs :
        AbsentTarget(i) =>
            /\ (Built /\ TargetsSettled(i)) => i \notin Range(last.active)
            /\ Got => configs[i].id \notin Keys(last.settings)
            /\ configs[i].id \notin Keys(get_paths_to_mount(configs).paths)

---------------------------------------------------------------------------
(* C24  No caching across calls: the settings that config_build followed   *)
(* by get_settings() produce on a module instance are determined by the    *)
(* inputs of that config_build call.  Whatever passes the instance has     *)
(* been through, a later pass with other sources (other properties, an     *)
(* emptied persisted configuration) resolves and emits what the same pass  *)
(* does on a freshly constructed instance.                                 *)

\* the instance as constructed: every value slot unset
Fresh(cfgs) == [i \in DOMAIN cfgs |-> [cfgs[i] EXCEPT !.value = None]]

\* the sources a later pass may be given
LaterProperties == {<<>>, << <<KA, Str(<<"x">>)>> >>, << <<KA, Str(<<"y">>)>> >>}

LaterLeanConfigs == {lean_config, LeanConfig(<<>>, <<>>)}

\* config_build then get_settings on the entries cfgs: what was resolved for
\* the active entries, the failure if any, and the map returned
Pass(cfgs, props, lc) ==
    LET built == config_build(cfgs,
                     [Invocation(Str(<<"u">>), Dict(<<>>)) EXCEPT
                          !.properties = props, !.lean_config = lc])
        got   == get_settings(built.cfgs, ambient, lc, environment_name)
    IN [error    |-> built.error,
        missing  |-> built.missing,
        resolved |-> [n \in DOMAIN built.active |->
                         <<built.active[n], built.cfgs[built.active[n]].value>>],
        settings |-> IF built.error = "none" THEN got.settings ELSE <<>>]

C24_NoCaching ==
    last.op # "none" =>
        \A props \in LaterProperties, lc \in LaterLeanConfigs :
            Pass(configs, props, lc) = Pass(Fresh(configs), props, lc)

---------------------------------------------------------------------------
(* The build pipeline of json_modules_handler, and                         *)
(* JsonModule.ensure_module_installed                                      *)

MODULE_CLI_PLATFORM == <<"cli">>

\* JsonModule.__init__ lines 56-65: declared is "absent", "true" or "false"
installs_from(declared, plat) ==
    IF declared # "absent" /\ plat = Str(MODULE_CLI_PLATFORM)
    THEN declared = "true"
    ELSE FALSE

\* the installation state of a module as constructed
Constructed(declared, plat) ==
    [declared            |-> declared,
     installs            |-> installs_from(declared, plat),
     is_module_installed |-> FALSE,
     ensure_calls        |-> 0,
     installer_calls     |-> 0]

\* an ensure_module_installed that does not look at _is_module_installed
ensure_module_installed_every_call(inst) ==
    IF inst.installs
    THEN [inst EXCEPT !.installer_calls     = @ + 1,
                      !.is_module_installed = TRUE,
                      !.ensure_calls        = @ + 1]
    ELSE [inst EXCEPT !.ensure_calls = @ + 1]

\* JsonModule.ensure_module_installed; the installer returns normally
ensure_module_installed(inst) ==
    IF ~inst.is_module_installed /\ inst.installs
    THEN [inst EXCEPT !.installer_calls     = @ + 1,
                      !.is_module_installed = TRUE,
                      !.ensure_calls        = @ + 1]
    ELSE [inst EXCEPT !.ensure_calls = @ + 1]

\* _update_settings handed the JsonModule object as target: the class has no
\* __contains__, __iter__ or __getitem__, so `key not in target` (line 227)
\* raises TypeError for the first property whose value is not None
_update_settings_of_module(lc, env) ==
    LET env_props == _get_env_properties(lc, env)
    IN IF \E i \in DOMAIN env_props : env_props[i][2] # None
       THEN "TypeError" ELSE "none"

\* lines 134 and 179: the merger runs once config_build has returned
then_update_settings(built, lc, env) ==
    IF built.error # "none" THEN built
    ELSE [built EXCEPT !.error = _update_settings_of_module(lc, env)]

\* config_build_for_name: config_build without CLI options, then the merger
config_build_for_name(cfgs, inp) ==
    then_update_settings(
        config_build(cfgs, [inp EXCEPT !.user_provided_options = <<>>]),
        inp.lean_config, inp.environment_name)

\* interactive_config_build for the module selected: the CLI options are
\* handed to config_build as its properties
interactive_config_build(cfgs, inp) ==
    then_update_settings(
        config_build(cfgs,
            [inp EXCEPT !.interactive           = TRUE,
                        !.properties            = inp.user_provided_options,
                        !.user_provided_options = <<>>]),
        inp.lean_config, inp.environment_name)

\* dict.update: every item of the settings put into the entries, in order
RECURSIVE put_all(_, _, _)
put_all(entries, settings, i) ==
    IF i > Len(settings) THEN entries
    ELSE put_all(Put(entries, settings[i][1], Str(settings[i][2])), settings, i + 1)

\* line 53: lean_config["environments"][environment_name].update(settings)
env_update(lc, env, settings) ==
    LET block == Get(lc.envs, env.s)
    IN [lc EXCEPT !.envs =
           Put(lc.envs, env.s,
               [block EXCEPT !.entries = put_all(block.entries, settings, 1)])]

\* lines 52-53: the module is ensured installed and its settings are put
\* into the environment block, which must exist
then_configure(built, got, inp, inst) ==
    IF inp.environment_name.t = "str"
       /\ Has(inp.lean_config.envs, inp.environment_name.s)
    THEN [build       |-> built,
          cfgs        |-> got.cfgs,
          error       |-> "none",
          install     |-> ensure_module_installed(inst),
          lean_config |-> env_update(inp.lean_config, inp.environment_name,
                                     got.settings),
          settings    |-> got.settings]
    ELSE [build       |-> built,
          cfgs        |-> got.cfgs,
          error       |-> "KeyError",
          install     |-> ensure_module_installed(inst),
          lean_config |-> inp.lean_config,
          settings    |-> got.settings]

\* lines 42-53 once the module is built
then_install(built, inp, amb, inst) ==
    IF built.error # "none"
    THEN [build |-> built, cfgs |-> built.cfgs, error |-> built.error,
          install |-> inst, lean_config |-> inp.lean_config, settings |-> <<>>]
    ELSE then_configure(
             built,
             get_settings(built.cfgs, amb, inp.lean_config, inp.environment_name),
             inp, inst)

\* build_and_configure_modules for one requested module
build_and_configure_modules(cfgs, inp, amb, inst) ==
    then_install(config_build_for_name(cfgs, [inp EXCEPT !.interactive = FALSE]),
                 inp, amb, inst)

\* how many calls of ensure_module_installed a behaviour makes
MaxEnsureCalls == 3

\* the properties block of the environment: none, unset, a scalar override,
\* an override of the list-like key
PipelineProperties ==
    {<<>>,
     << <<KA, None>> >>,
     << <<KA, Str(<<"p">>)>> >>,
     << <<DQH, Str(<<"A">>)>> >>}

PipelineSchemas ==
    {<<Entry(KA, "input", optional, None, <<>>, <<>>),
       Entry(KB, "input", FALSE, None, <<>>, <<>>)>> : optional \in BOOLEAN}

InitPipeline ==
    /\ module_type = Brokerage
    /\ platform \in {Cli, Str(<<"cloud">>)}
    /\ \E schema \in PipelineSchemas : configs = sort_configs(schema)
    /\ \E top \in {<<>>, << <<KA, Str(<<"d">>)>> >>}, props \in PipelineProperties :
          lean_config = LeanConfig(top, << <<LIVE, EnvBlock(<<>>, props)>> >>)
    /\ environment_name \in {Str(LIVE), None}
    /\ interactive \in BOOLEAN
    /\ user_provided_options \in {<<>>, << <<KB, Str(<<"c">>)>> >>}
    /\ properties \in {<<>>, << <<KB, Str(<<"b">>)>> >>}
    /\ ambient = FALSE
    /\ last = NoCall
    /\ IdleMerge
    /\ \E declared \in {"absent", "true", "false"} :
          install = Constructed(declared, platform)

ConfigBuildForName ==
    \E answer \in Answers, auth_answer \in AuthAnswers :
        \E r \in {config_build_for_name(configs, Invocation(answer, auth_answer))} :
           /\ configs' = r.cfgs
           /\ last' = [op       |-> "config_build_for_name",
                       error    |-> r.error,
                       missing  |-> r.missing,
                       active   |-> r.active,
                       prompted |-> r.prompted,
                       saved    |-> r.saved,
                       settings |-> <<>>]
           /\ UNCHANGED <<module_type, platform, lean_config, environment_name,
                          interactive, user_provided_options, properties, ambient>>
           /\ UNCHANGED mergeVars
           /\ UNCHANGED installVars

InteractiveConfigBuild ==
    \E answer \in Answers, auth_answer \in AuthAnswers :
        \E r \in {interactive_config_build(configs, Invocation(answer, auth_answer))} :
           /\ configs' = r.cfgs
           /\ last' = [op       |-> "interactive_config_build",
                       error    |-> r.error,
                       missing  |-> r.missing,
                       active   |-> r.active,
                       prompted |-> r.prompted,
                       saved    |-> r.saved,
                       settings |-> <<>>]
           /\ UNCHANGED <<module_type, platform, lean_config, environment_name,
                          interactive, user_provided_options, properties, ambient>>
           /\ UNCHANGED mergeVars
           /\ UNCHANGED installVars

EnsureModuleInstalled ==
    /\ install.ensure_calls < MaxEnsureCalls
    /\ install' = ensure_module_installed(install)
    /\ UNCHANGED moduleVars
    /\ UNCHANGED mergeVars

BuildAndConfigureModules ==
    /\ install.ensure_calls < MaxEnsureCalls
    /\ \E r \in {build_and_configure_modules(
                      configs, Invocation(Str(<<>>), Dict(<<>>)), ambient, install)} :
          /\ configs' = r.cfgs
          /\ lean_config' = r.lean_config
          /\ install' = r.install
          /\ last' = [op       |-> "build_and_configure_modules",
                      error    |-> r.error,
                      missing  |-> r.build.missing,
                      active   |-> r.build.active,
                      prompted |-> r.build.prompted,
                      saved    |-> r.build.saved,
                      settings |-> r.settings]
    /\ UNCHANGED <<module_type, platform, environment_name, interactive,
                   user_provided_options, properties, ambient>>
    /\ UNCHANGED mergeVars

NextPipeline ==
    \/ ConfigBuildForName
    \/ InteractiveConfigBuild
    \/ BuildAndConfigureModules
    \/ EnsureModuleInstalled
    \/ GetSettings

SpecPipeline == InitPipeline /\ [][NextPipeline]_vars

(* C22  When config_build_for_name or interactive_config_build is called   *)
(* for an environment whose properties block holds an override that is not *)
(* None, the call completes without error whenever config_build succeeded, *)
(* and the settings map get_settings() then returns holds the merged value *)
(* for the key: the override for a scalar key, the parsed list for the     *)
(* list-like key.                                                          *)

Overridden == {key \in Keys(EnvProps) : Lookup(EnvProps, key) # {None}}

ThroughMerger == last.op \in {"config_build_for_name", "interactive_config_build"}

C22_PipelineMerge ==
    [][/\ (ThroughMerger' /\ Overridden # {} /\ last'.error \notin {"missing", "lookup"})
          => last'.error = "none"
       /\ (ThroughMerger /\ last.error = "none" /\ last'.op = "get_settings")
          => \A key \in Overridden :
                \A v \in Lookup(EnvProps, key) :
                    Lookup(last'.settings, key) =
                        {IF key \in list_like_keys
                         THEN str(List(Dedup(ClaimParse(v)))) ELSE str(v)}]_vars

(* C30  Over any sequence of ensure_module_installed calls on one module   *)
(* instance, made directly or by build_and_configure_modules, the          *)
(* installer is invoked at most once, and it is never invoked for a module *)
(* that does not declare installs on the CLI platform.                     *)

DeclaresInstalls == install.declared = "true" /\ platform = Cli

C30_InstallOnce ==
    /\ install.installer_calls <= 1
    /\ ~DeclaresInstalls => install.installer_calls = 0

\* the module was ensured installed more than once, by the build pipeline
\* among others, and the installer ran once
C30_Witness ==
    /\ DeclaresInstalls
    /\ last.op = "build_and_configure_modules" /\ last.error = "none"
    /\ install.ensure_calls = MaxEnsureCalls
    /\ install.is_module_installed
    /\ install.installer_calls = 1

=============================================================================
